---- MODULE Spec2Model ----
(***************************************************************************)
(* Release Radar (kushidam/ccradar): the serving run of src/main.py with   *)
(* its collaborators src/github_client.py, src/state.py, src/classifier.py *)
(* and src/notifier.py, and the evaluation scripts scripts/build_truth.py  *)
(* and scripts/eval_prompt.py.                                             *)
(*                                                                         *)
(* Python values are modelled as tagged records: None is [t |-> "null"],   *)
(* a str is [t |-> "str", v |-> ...], a JSON array [t |-> "list", ...], a  *)
(* JSON object [t |-> "obj", v |-> function from keys to values].  Tags    *)
(* and versions are sequences of one-character strings so that             *)
(* str.lstrip("v") and str.strip() are computed, not assumed.              *)
(***************************************************************************)
EXTENDS Naturals, Sequences, FiniteSets, TLC

VARIABLES
    published,       \* upstream: number of releases published so far
    stateFile,       \* data/state.json
    pc,              \* main(): "idle" (no run in progress) or "loop"
    dry_run,         \* args.dry_run of the current / last run
    last_version,    \* main() local, read at line 47
    new_releases,    \* main() local, the batch (oldest first)
    idx,             \* position of the for loop of main() line 61
    latest_version,  \* main() local
    lastRun,         \* history: how the last run ended
    fileAtStart,     \* history: stateFile when the run started
    fetchedAtStart,  \* history: the page fetch_releases returned to the run
    calledNow,       \* history: versions passed to notify() in this run
    calledAborted,   \* history: ... in earlier runs that aborted
    calledDone,      \* history: ... in earlier runs that completed
    saves,           \* history: calls of save_last_version() in this run
    call             \* the last direct call of a function (SpecCalls)

vars == <<published, stateFile, pc, dry_run, last_version, new_releases, idx,
          latest_version, lastRun, fileAtStart, fetchedAtStart, calledNow,
          calledAborted, calledDone, saves, call>>

serveVars == <<published, stateFile, pc, dry_run, last_version, new_releases,
               idx, latest_version, lastRun, fileAtStart, fetchedAtStart,
               calledNow, calledAborted, calledDone, saves>>

----------------------------------------------------------------------------
(* Bounds of the model.                                                    *)

\* Releases the upstream project publishes in one behaviour.
MaxPublished == 5

\* fetch_releases() asks for one page of per_page = 30 releases
\* (src/github_client.py line 29).  The model scales the page down so that
\* "more releases than one page since the watermark" is reachable within
\* MaxPublished; nothing else depends on the number.
PerPage == 3

\* Longest release list handed to get_new_releases when it is called directly.
MaxFetched == 3

----------------------------------------------------------------------------
(* Python values.                                                          *)

PyNone == [t |-> "null"]
PyStr(s) == [t |-> "str", v |-> s]
PyNum(n) == [t |-> "num", v |-> n]
PyList(xs) == [t |-> "list", v |-> xs]
PyObj(f) == [t |-> "obj", v |-> f]

\* dict.get(key, default)
DictGet(d, key, default) == IF key \in DOMAIN d THEN d[key] ELSE default

Min(a, b) == IF a < b THEN a ELSE b

RECURSIVE Reverse(_)
Reverse(s) == IF s = <<>> THEN <<>> ELSE Append(Reverse(Tail(s)), Head(s))

\* str.lstrip(ch): every leading occurrence of ch is removed.
RECURSIVE lstrip(_, _)
lstrip(s, ch) ==
    IF s # <<>> /\ Head(s) = ch THEN lstrip(Tail(s), ch) ELSE s

----------------------------------------------------------------------------
(* src/github_client.py                                                    *)

\* The one-character strings version numbers are written with; release k of
\* the upstream project is tagged "v" followed by VersionChars[k].
VersionChars == <<"1", "2", "3", "4", "5", "6", "7", "8", "9">>

ReleaseOf(k) == [tag_name |-> <<"v", VersionChars[k]>>]

\* The releases endpoint: newest first.
Feed(n) == [i \in 1..n |-> ReleaseOf(n - i + 1)]

\* fetch_releases(per_page): the first page of the feed.
fetch_releases(feed, per_page) == SubSeq(feed, 1, Min(per_page, Len(feed)))

\* release.get("tag_name", "").lstrip("v")
get_release_version(release) == lstrip(DictGet(release, "tag_name", <<>>), "v")

\* release.get("body", "")
get_release_body(release) == DictGet(release, "body", PyStr(<<>>))

\* tag == last_version, for a str tag and any Python value last_version.
TagEquals(tag, lv) == lv.t = "str" /\ lv.v = tag

\* The for loop of get_new_releases: the releases before the first one whose
\* stripped tag equals last_version, in list order.
RECURSIVE CollectUntil(_, _)
CollectUntil(releases, lv) ==
    IF releases = <<>> THEN <<>>
    ELSE IF TagEquals(get_release_version(Head(releases)), lv) THEN <<>>
    ELSE <<Head(releases)>> \o CollectUntil(Tail(releases), lv)

\* A plausible bug: the matching release is kept in the batch.
get_new_releases_Inclusive(releases, lv) ==
    IF releases = <<>> THEN <<>>
    ELSE IF lv = PyNone THEN <<releases[1]>>
    ELSE LET n == Len(CollectUntil(releases, lv))
         IN Reverse(SubSeq(releases, 1, Min(n + 1, Len(releases))))

\* A plausible bug: the trailing reverse() is forgotten.
get_new_releases_NoReverse(releases, lv) ==
    IF releases = <<>> THEN <<>>
    ELSE IF lv = PyNone THEN <<releases[1]>>
    ELSE CollectUntil(releases, lv)

\* A plausible bug: without a watermark the whole page is processed.
get_new_releases_AllWhenNone(releases, lv) ==
    IF releases = <<>> THEN <<>>
    ELSE IF lv = PyNone THEN Reverse(releases)
    ELSE Reverse(CollectUntil(releases, lv))

\* get_new_releases(last_version), given what fetch_releases() returned.
get_new_releases(releases, lv) ==
    IF releases = <<>> THEN <<>>
    ELSE IF lv = PyNone THEN <<releases[1]>>
    ELSE Reverse(CollectUntil(releases, lv))

----------------------------------------------------------------------------
(* src/state.py                                                            *)

FileAbsent == [kind |-> "absent"]
FileJson(data) == [kind |-> "json", data |-> data]

Returned(value) == [raised |-> "none", value |-> value]
Raised(exc) == [raised |-> exc, value |-> PyNone]

\* get_last_version() on a state file that is absent, cannot be opened
\* (OSError), holds bytes that do not decode as text, holds text that is not
\* JSON, or holds a JSON value.
get_last_version(file) ==
    IF file.kind = "absent" THEN Returned(PyNone)
    ELSE IF file.kind = "oserror" THEN Returned(PyNone)
    ELSE IF file.kind = "undecodable" THEN Raised("UnicodeDecodeError")
    ELSE IF file.kind = "invalid_json" THEN Returned(PyNone)
    ELSE IF file.data.t # "obj" THEN Raised("AttributeError")
    ELSE Returned(DictGet(file.data.v, "last_version", PyNone))

\* save_last_version(version): the whole record is rewritten.  last_checked
\* is the time of the write; the model keeps the key and not the clock.
save_last_version(version) ==
    FileJson(PyObj([last_version |-> PyStr(version),
                    last_checked |-> PyStr(<<"t">>)]))

----------------------------------------------------------------------------
(* src/categories.py                                                       *)

Category == {"Feature", "Improvement", "Bugfix", "Change", "Breaking"}

\* A plausible bug: Bugfix is not taken out of the notify set.
NOTIFY_CATEGORIES_WithBugfix == Category

NOTIFY_CATEGORIES == Category \ {"Bugfix"}

----------------------------------------------------------------------------
(* src/classifier.py                                                       *)

\* str.strip(): leading and trailing whitespace is removed.
IsSpace(c) == c \in {" ", "\n"}

RECURSIVE lstripSpace(_)
lstripSpace(s) ==
    IF s # <<>> /\ IsSpace(Head(s)) THEN lstripSpace(Tail(s)) ELSE s

strip(s) == Reverse(lstripSpace(Reverse(lstripSpace(s))))

\* A model reply is a text of lines, each blank, a Markdown fence line (one
\* that starts with three backquotes once stripped), a piece of one JSON
\* document, or prose; doc is the JSON document the "json" lines spell.
RawText(lines, doc) == [lines |-> lines, doc |-> doc]

RECURSIVE lstripBlank(_)
lstripBlank(lines) ==
    IF lines # <<>> /\ Head(lines) = "blank" THEN lstripBlank(Tail(lines))
    ELSE lines

\* response.text.strip(), on the lines of the text.
stripText(raw) ==
    RawText(Reverse(lstripBlank(Reverse(lstripBlank(raw.lines)))), raw.doc)

IsFenceLine(l) == l = "fence"
NotFenceLine(l) == l # "fence"
NotBlankLine(l) == l # "blank"

\* Lines 107-111: when the text starts with a fence, every fence line goes.
RemoveFences(lines) ==
    IF lines # <<>> /\ IsFenceLine(Head(lines))
    THEN SelectSeq(lines, NotFenceLine)
    ELSE lines

\* json.loads(text): the text is JSON when, whitespace aside, it consists of
\* the lines of the document and of nothing else.
json_loads(lines, doc) ==
    LET content == SelectSeq(lines, NotBlankLine)
    IN IF content # <<>> /\ \A i \in 1..Len(content) : content[i] = "json"
       THEN Returned(doc)
       ELSE Raised("JSONDecodeError")

\* bool(x) of a JSON value.
Truthy(x) ==
    CASE x.t = "null" -> FALSE
      [] x.t = "str" -> x.v # ""
      [] x.t = "num" -> x.v # 0
      [] x.t = "list" -> x.v # <<>>
      [] x.t = "obj" -> DOMAIN x.v # {}

\* hash(x) raises TypeError for a list or a dict.
Unhashable(x) == x.t \in {"list", "obj"}

\* category in NOTIFY_CATEGORIES, for a hashable value.
InNotifyCategories(x) == x.t = "str" /\ x.v \in NOTIFY_CATEGORIES

ClassifiedItem(category, summary, original) ==
    [category |-> category, summary |-> summary, original |-> original]

\* What "for item in items" visits: the elements of a list, the characters
\* of a str, the keys of a dict; None and numbers are not iterable.
Iterate(items) ==
    CASE items.t = "list" -> Returned(items.v)
      [] items.t = "str" ->
            Returned(IF items.v = "" THEN <<>> ELSE <<[t |-> "str", v |-> "c"]>>)
      [] items.t = "obj" ->
            Returned(IF DOMAIN items.v = {} THEN <<>>
                     ELSE <<[t |-> "str", v |-> "key"]>>)
      [] OTHER -> Raised("TypeError")

\* Whether an item of the reply is kept (line 125).
Keeps(category, summary) == InNotifyCategories(category) /\ Truthy(summary)

\* The loop of lines 121-126 over the remaining items, result so far in acc.
RECURSIVE ParseItems(_, _)
ParseItems(items, acc) ==
    IF items = <<>> THEN Returned(acc)
    ELSE LET item == Head(items)
         IN IF item.t # "obj" THEN Raised("AttributeError")
            ELSE LET category == DictGet(item.v, "category", [t |-> "str", v |-> ""])
                     summary == DictGet(item.v, "summary", [t |-> "str", v |-> ""])
                     original == DictGet(item.v, "original", [t |-> "str", v |-> ""])
                 IN IF Unhashable(category) THEN Raised("TypeError")
                    ELSE IF Keeps(category, summary)
                    THEN ParseItems(Tail(items),
                             Append(acc, ClassifiedItem(category.v, summary, original)))
                    ELSE ParseItems(Tail(items), acc)

\* _parse_response(raw_text)
parse_response(raw) ==
    LET parsed == json_loads(RemoveFences(raw.lines), raw.doc)
    IN IF parsed.raised # "none" THEN Returned(<<>>)
       ELSE LET data == parsed.value
            IN IF data.t # "obj" THEN Raised("AttributeError")
               ELSE LET it == Iterate(DictGet(data.v, "items", PyList(<<>>)))
                    IN IF it.raised # "none" THEN it
                       ELSE ParseItems(it.value, <<>>)

\* What a call of classify_release did: its result, whether it got as far as
\* reading GEMINI_API_KEY, and how many calls it made to the model endpoint.
Classified(result, key_read, calls) ==
    [raised |-> result.raised, value |-> result.value,
     key_read |-> key_read, calls |-> calls]

\* The endpoint's answer to generate_content: an exception, a response whose
\* text is None, or a response with a text.
EndpointRaises(exc) == [kind |-> "raise", exc |-> exc]
EndpointNoText == [kind |-> "no_text"]
EndpointReplies(raw) == [kind |-> "reply", text |-> raw]

\* A plausible bug: an exception of the endpoint call is caught and turned
\* into "no items".
CallEndpoint_SwallowsErrors(ep) ==
    IF ep.kind = "raise" THEN Returned(<<>>)
    ELSE IF ep.kind = "no_text" THEN Raised("AttributeError")
    ELSE parse_response(stripText(ep.text))

\* Lines 88-99: the call and what follows it.
CallEndpoint(ep) ==
    IF ep.kind = "raise" THEN Raised(ep.exc)
    ELSE IF ep.kind = "no_text" THEN Raised("AttributeError")
    ELSE parse_response(stripText(ep.text))

\* A plausible bug: the guard tests "not body" alone.
EmptyBody_NoStrip(body) == body.t = "null" \/ body.v = <<>>

\* The guard of line 76: not body or not body.strip()
EmptyBody(body) ==
    body.t = "null" \/ body.v = <<>> \/ strip(body.v) = <<>>

\* classify_release(body), given GEMINI_API_KEY and the endpoint's answer.
classify_release(body, api_key, ep) ==
    IF EmptyBody(body) THEN Classified(Returned(<<>>), FALSE, 0)
    ELSE IF ~Truthy(api_key) THEN Classified(Raised("RuntimeError"), TRUE, 0)
    ELSE Classified(CallEndpoint(ep), TRUE, 1)

----------------------------------------------------------------------------
(* src/notifier.py                                                         *)

\* notify(version, items), given SLACK_WEBHOOK_URL and whether the webhook
\* answers 2xx: the URL is read first, then the payload is posted.
notify(version, items, webhook_url, hook_ok) ==
    IF ~Truthy(webhook_url) THEN Raised("RuntimeError")
    ELSE IF ~hook_ok THEN Raised("HTTPError")
    ELSE Returned(PyNone)

\* _SLACK_SECTION_MAX_LENGTH
SLACK_SECTION_MAX_LENGTH == 3000

\* A text is kept as a name and its length in characters: the section
\* builder reads nothing of a summary or a header but its length.
Text(name, n) == [name |-> name, len |-> n]

\* f"  - {item.summary}"
ItemLine(item) == Text(item.summary.name, 4 + item.summary.len)

RECURSIVE SumLen(_)
SumLen(lines) == IF lines = <<>> THEN 0 ELSE Head(lines).len + SumLen(Tail(lines))

\* A section block; its text is f"{header}\n" + "\n".join(lines).
SectionBlock(header, lines) == [header |-> header, lines |-> lines]

SectionTextLen(block) ==
    block.header.len + 1 + SumLen(block.lines) + (Len(block.lines) - 1)

\* The loop of lines 22-32 over the remaining items, and lines 34-36 after it.
RECURSIVE SectionLoop(_, _, _, _, _)
SectionLoop(header, items, blocks, current_lines, current_len) ==
    IF items = <<>>
    THEN IF current_lines # <<>>
         THEN Append(blocks, SectionBlock(header, current_lines))
         ELSE blocks
    ELSE LET line == ItemLine(Head(items))
             line_len == line.len + 1
             flush == /\ current_len + line_len > SLACK_SECTION_MAX_LENGTH
                      /\ current_lines # <<>>
         IN SectionLoop(header, Tail(items),
                IF flush THEN Append(blocks, SectionBlock(header, current_lines))
                ELSE blocks,
                Append(IF flush THEN <<>> ELSE current_lines, line),
                (IF flush THEN header.len + 1 ELSE current_len) + line_len)

\* _build_section_blocks(header, items)
build_section_blocks(header, items) ==
    SectionLoop(header, items, <<>>, <<>>, header.len + 1)

----------------------------------------------------------------------------
(* What the environment hands a serving run.                               *)

----------------------------------------------------------------------------
(* scripts/eval_prompt.py and scripts/build_truth.py (the same function)   *)

\* str.rstrip(ch): every trailing occurrence of ch is removed.
rstrip(s, ch) == Reverse(lstrip(Reverse(s), ch))

\* str.lower(), on the letters of the Latin alphabet.
LowerCase ==
    "A" :> "a" @@ "B" :> "b" @@ "C" :> "c" @@ "D" :> "d" @@ "E" :> "e"
    @@ "F" :> "f" @@ "G" :> "g" @@ "H" :> "h" @@ "I" :> "i" @@ "J" :> "j"
    @@ "K" :> "k" @@ "L" :> "l" @@ "M" :> "m" @@ "N" :> "n" @@ "O" :> "o"
    @@ "P" :> "p" @@ "Q" :> "q" @@ "R" :> "r" @@ "S" :> "s" @@ "T" :> "t"
    @@ "U" :> "u" @@ "V" :> "v" @@ "W" :> "w" @@ "X" :> "x" @@ "Y" :> "y"
    @@ "Z" :> "z"

lower(s) == [i \in 1..Len(s) |-> DictGet(LowerCase, s[i], s[i])]

\* str.split(sep) with a one-character separator.
RECURSIVE split(_, _)
split(s, sep) ==
    IF \A i \in 1..Len(s) : s[i] # sep THEN <<s>>
    ELSE LET k == CHOOSE i \in 1..Len(s) :
                      s[i] = sep /\ \A j \in 1..(i - 1) : s[j] # sep
         IN <<SubSeq(s, 1, k - 1)>> \o split(SubSeq(s, k + 1, Len(s)), sep)

\* The longest prefix of s without a line feed: what ".+" or ".*" can span.
RECURSIVE UpToLineFeed(_)
UpToLineFeed(s) ==
    IF s = <<>> \/ Head(s) = "\n" THEN <<>>
    ELSE <<Head(s)>> \o UpToLineFeed(Tail(s))

NoMatch == <<"\n">>

\* re.match(r"^- (.+)", line).group(1), or NoMatch when there is no match.
BulletText(line) ==
    IF /\ Len(line) >= 3
       /\ line[1] = "-"
       /\ line[2] = " "
       /\ line[3] # "\n"
    THEN UpToLineFeed(SubSeq(line, 3, Len(line)))
    ELSE NoMatch

\* re.sub(r"^\[.*?\]\s*", "", text): a leading "[", the shortest run up to
\* a "]" on the same line, and the white space after it are removed.
RemovePlatformPrefix(text) ==
    LET span == UpToLineFeed(text)
        closes == {k \in 2..Len(span) : span[k] = "]"}
    IN IF text # <<>> /\ Head(text) = "[" /\ closes # {}
       THEN LET k == CHOOSE i \in closes : \A j \in closes : i <= j
            IN lstripSpace(SubSeq(text, k + 1, Len(text)))
       ELSE text

\* The longest prefix of s without white space.
RECURSIVE UpToSpace(_)
UpToSpace(s) ==
    IF s = <<>> \/ IsSpace(Head(s)) THEN <<>>
    ELSE <<Head(s)>> \o UpToSpace(Tail(s))

\* str.split(): the words between runs of white space.
RECURSIVE splitWords(_)
splitWords(s) ==
    LET t == lstripSpace(s)
    IN IF t = <<>> THEN <<>>
       ELSE LET w == UpToSpace(t)
            IN <<w>> \o splitWords(SubSeq(t, Len(w) + 1, Len(t)))

VERB_TO_CATEGORY ==
    <<"a", "d", "d", "e", "d">> :> "Feature"
    @@ <<"f", "i", "x", "e", "d">> :> "Bugfix"
    @@ <<"i", "m", "p", "r", "o", "v", "e", "d">> :> "Improvement"
    @@ <<"c", "h", "a", "n", "g", "e", "d">> :> "Change"
    @@ <<"r", "e", "m", "o", "v", "e", "d">> :> "Change"
    @@ <<"d", "e", "p", "r", "e", "c", "a", "t", "e", "d">> :> "Change"
    @@ <<"b", "r", "e", "a", "k", "i", "n", "g">> :> "Breaking"

\* A variant that looks the word up as written, without lower().
first_word_AsWritten(clean) ==
    IF clean = <<>> THEN Returned(<<>>)
    ELSE IF splitWords(clean) = <<>> THEN Raised("IndexError")
    ELSE Returned(rstrip(splitWords(clean)[1], ":"))

\* first_word = clean.split()[0].lower().rstrip(":") if clean else ""
first_word(clean) ==
    IF clean = <<>> THEN Returned(<<>>)
    ELSE IF splitWords(clean) = <<>> THEN Raised("IndexError")
    ELSE Returned(rstrip(lower(splitWords(clean)[1]), ":"))

BulletItem(text, category) == [text |-> text, category |-> category]

\* The loop of extract_items_from_body over the lines that are left.
RECURSIVE ExtractLoop(_, _)
ExtractLoop(lines, items) ==
    IF lines = <<>> THEN Returned(items)
    ELSE LET m == BulletText(Head(lines))
             text == strip(m)
             word == first_word(RemovePlatformPrefix(text))
         IN IF m = NoMatch THEN ExtractLoop(Tail(lines), items)
            ELSE IF word.raised # "none" THEN word
            ELSE ExtractLoop(Tail(lines),
                     Append(items,
                            BulletItem(text,
                                DictGet(VERB_TO_CATEGORY, word.value,
                                        "Unknown"))))

extract_items_from_body(body) == ExtractLoop(split(body, "\n"), <<>>)

----------------------------------------------------------------------------
(* The Matcher / Scorer of the evaluation harness. The repository holds no *)
(* code for it; it is modelled after section 4.4 of its specification.     *)

IsDigit(c) == c \in {"0", "1", "2", "3", "4", "5", "6", "7", "8", "9"}

IsNameChar(c) == c \notin {"(", ")", "/", "#", " ", "\n"}

\* The length of the issue reference "(owner/repo#NNN)" that s starts with,
\* 0 when it starts with none.
IssueRefLen(s) ==
    LET closes == {k \in 1..Len(s) : s[k] = ")"}
    IN IF s = <<>> \/ Head(s) # "(" \/ closes = {} THEN 0
       ELSE LET k == CHOOSE i \in closes : \A j \in closes : i <= j
                isRef == \E p \in 3..(k - 4) : \E q \in (p + 2)..(k - 2) :
                             /\ s[p] = "/"
                             /\ s[q] = "#"
                             /\ \A i \in 2..(p - 1) : IsNameChar(s[i])
                             /\ \A i \in (p + 1)..(q - 1) : IsNameChar(s[i])
                             /\ \A i \in (q + 1)..(k - 1) : IsDigit(s[i])
            IN IF isRef THEN k ELSE 0

\* Every issue reference is removed.
RECURSIVE RemoveIssueRefs(_)
RemoveIssueRefs(s) ==
    IF s = <<>> THEN <<>>
    ELSE IF IssueRefLen(s) > 0
         THEN RemoveIssueRefs(SubSeq(s, IssueRefLen(s) + 1, Len(s)))
    ELSE <<Head(s)>> \o RemoveIssueRefs(Tail(s))

\* Every run of white space becomes one space.
RECURSIVE CollapseSpaces(_)
CollapseSpaces(s) ==
    IF s = <<>> THEN <<>>
    ELSE IF IsSpace(Head(s))
         THEN <<" ">> \o CollapseSpaces(lstripSpace(s))
    ELSE <<Head(s)>> \o CollapseSpaces(Tail(s))

\* Step 1: trim, remove issue references, collapse white space, lower-case
\* (the texts of the model are plain Latin text, which Unicode normalization
\* leaves as it is).
normalize(text) == lower(CollapseSpaces(RemoveIssueRefs(strip(text))))

IsSubstring(a, b) ==
    \E i \in 0..(Len(b) - Len(a)) : SubSeq(b, i + 1, i + Len(a)) = a

\* One text is a substring of the other.
Contains(a, b) == IsSubstring(a, b) \/ IsSubstring(b, a)

\* Step 2: the keys of the index, in the order the model items bring them,
\* and the model items under one key.
RECURSIVE IndexKeys(_)
IndexKeys(model_items) ==
    IF model_items = <<>> THEN <<>>
    ELSE LET n == Len(model_items)
             before == IndexKeys(SubSeq(model_items, 1, n - 1))
             key == normalize(model_items[n].original)
         IN IF \E i \in DOMAIN before : before[i] = key THEN before
            ELSE Append(before, key)

ItemsWithKey(model_items, key) ==
    {i \in DOMAIN model_items : normalize(model_items[i].original) = key}

\* A matcher without used-item tracking.
Unused_NotTracked(candidates, used) == candidates

\* Step 3: already-consumed items are skipped regardless of tier.
Unused(candidates, used) == candidates \ used

FirstOf(S) == CHOOSE i \in S : \A j \in S : i <= j

NoItem == 0

\* The exact tier: one unused model item under the truth text's own key.
ExactMatch(model_items, used, text) ==
    LET free == Unused(ItemsWithKey(model_items, text), used)
    IN IF free = {} THEN NoItem ELSE FirstOf(free)

\* The containment tier: the first unused model item, in key order, whose
\* key contains the truth text or is contained in it.
RECURSIVE ContainmentMatch(_, _, _, _)
ContainmentMatch(model_items, used, keys, text) ==
    IF keys = <<>> THEN NoItem
    ELSE LET free == Unused(ItemsWithKey(model_items, Head(keys)), used)
         IN IF Contains(Head(keys), text) /\ free # {} THEN FirstOf(free)
            ELSE ContainmentMatch(model_items, used, Tail(keys), text)

\* The row of one ground-truth item; item is the position of the model item
\* it consumed, NoItem when it found none.
MatchResult(truth, model_items, item) ==
    LET gemini_category ==
            IF item = NoItem THEN "" ELSE model_items[item].category
    IN [truth_text |-> truth.text,
        truth_category |-> truth.category,
        truth_notify |-> truth.category \in NOTIFY_CATEGORIES,
        gemini_category |-> gemini_category,
        gemini_notify |-> gemini_category \in NOTIFY_CATEGORIES,
        notify_match |-> (truth.category \in NOTIFY_CATEGORIES)
                            = (gemini_category \in NOTIFY_CATEGORIES),
        item |-> item]

RECURSIVE MatchLoop(_, _, _, _)
MatchLoop(truths, model_items, used, results) ==
    IF truths = <<>> THEN results
    ELSE LET text == normalize(Head(truths).text)
             exact == ExactMatch(model_items, used, text)
             item == IF exact # NoItem THEN exact
                     ELSE ContainmentMatch(model_items, used,
                                           IndexKeys(model_items), text)
         IN MatchLoop(Tail(truths), model_items,
                      IF item = NoItem THEN used ELSE used \cup {item},
                      Append(results,
                             MatchResult(Head(truths), model_items, item)))

\* match(ground_truth_items, model_items)
match(ground_truth_items, model_items) ==
    MatchLoop(ground_truth_items, model_items, {}, <<>>)

----------------------------------------------------------------------------
(* scripts/eval_prompt.py: evaluate                                        *)

\* len(by_cat.get(cat, [])), for the items grouped by category.
CountCategory(items, cat) ==
    Cardinality({i \in DOMAIN items : items[i].category = cat})

ReportedCategories == <<"Feature", "Improvement", "Change", "Breaking">>

Issue(kind, category) == [kind |-> kind, category |-> category]

\* The MISS, EXTRA and DIFF issues of one version, category by category.
RECURSIVE CountIssues(_, _, _)
CountIssues(cats, truth_items, items) ==
    IF cats = <<>> THEN <<>>
    ELSE LET expected == CountCategory(truth_items, Head(cats))
             actual == CountCategory(items, Head(cats))
             issue == IF expected > 0 /\ actual = 0
                          THEN <<Issue("MISS", Head(cats))>>
                      ELSE IF expected = 0 /\ actual > 0
                          THEN <<Issue("EXTRA", Head(cats))>>
                      ELSE IF expected - actual > 1 \/ actual - expected > 1
                          THEN <<Issue("DIFF", Head(cats))>>
                      ELSE <<>>
         IN issue \o CountIssues(Tail(cats), truth_items, items)

\* The LEAK issue of one version.
LeakIssue(items) ==
    IF CountCategory(items, "Bugfix") > 0
    THEN <<Issue("LEAK", "Bugfix")>> ELSE <<>>

\* agg before the first version.
NoCounts ==
    [c \in Category |->
        IF c = "Bugfix" THEN [total |-> 0, leaked |-> 0]
        ELSE [expected |-> 0, actual |-> 0]]

\* agg after one more version.
AddCounts(agg, truth_items, items) ==
    [c \in Category |->
        IF c = "Bugfix"
        THEN [total |-> agg[c].total + CountCategory(truth_items, c),
              leaked |-> agg[c].leaked + CountCategory(items, c)]
        ELSE [expected |-> agg[c].expected + CountCategory(truth_items, c),
              actual |-> agg[c].actual + CountCategory(items, c)]]

\* One version to evaluate: its release, its ground-truth rows, and what the
\* model endpoint answers when asked about it.
EvalCase(release, truth_items, ep) ==
    [release |-> release, truth_items |-> truth_items, ep |-> ep]

\* The loop of evaluate over the releases that are left; GEMINI_API_KEY is
\* set.
RECURSIVE EvaluateLoop(_, _, _)
EvaluateLoop(cases, agg, all_results) ==
    IF cases = <<>>
    THEN Returned([total_versions |-> Len(all_results), aggregate |-> agg,
                   results |-> all_results])
    ELSE LET c == Head(cases)
             version == get_release_version(c.release)
             body == get_release_body(c.release)
             classified == classify_release(body, PyStr("set"), c.ep)
             items == classified.value
         IN IF EmptyBody(body) THEN EvaluateLoop(Tail(cases), agg, all_results)
            ELSE IF classified.raised # "none" THEN Raised(classified.raised)
            ELSE EvaluateLoop(Tail(cases),
                     AddCounts(agg, c.truth_items, items),
                     Append(all_results,
                            [version |-> version,
                             issues |-> CountIssues(ReportedCategories,
                                                    c.truth_items, items)
                                        \o LeakIssue(items)]))

\* evaluate(count), given the versions of the ground truth.
evaluate(cases) == EvaluateLoop(cases, NoCounts, <<>>)

\* The body of a fetched release: the key absent, null (a release without
\* notes), whitespace only, or change-log text.
ReleaseBodies ==
    {PyNone, PyStr(<<" ", "\n">>), PyStr(<<"-", " ", "a">>)}

\* The fetched release has no "body" key.
NoBody == [t |-> "absent"]

\* Environment variables: unset, or set.
EnvValues == {PyNone, PyStr("set")}

GoodReply ==
    RawText(<<"fence", "json", "fence">>,
            PyObj([items |-> PyList(<<
                PyObj([category |-> PyStr("Feature"), summary |-> PyStr("s"),
                       original |-> PyStr("a")])>>)]))

\* What the model endpoint may answer during a serving run.
ServeEndpoints ==
    {EndpointRaises("RateLimit429"), EndpointReplies(GoodReply),
     EndpointReplies(RawText(<<"prose">>, PyNone))}

----------------------------------------------------------------------------
(* src/main.py: the serving run without --version.                         *)

Init ==
    /\ published = 0
    /\ stateFile = FileAbsent
    /\ pc = "idle"
    /\ dry_run = FALSE
    /\ last_version = PyNone
    /\ new_releases = <<>>
    /\ idx = 0
    /\ latest_version = PyNone
    /\ lastRun = "none"
    /\ fileAtStart = FileAbsent
    /\ fetchedAtStart = <<>>
    /\ calledNow = {}
    /\ calledAborted = {}
    /\ calledDone = {}
    /\ saves = 0
    /\ call = [fn |-> "none"]

\* The upstream project publishes its next release.
Publish ==
    /\ published < MaxPublished
    /\ published' = published + 1
    /\ UNCHANGED <<stateFile, pc, dry_run, last_version, new_releases, idx,
                   latest_version, lastRun, fileAtStart, fetchedAtStart,
                   calledNow, calledAborted, calledDone, saves, call>>

\* The run ends: by an exception that leaves main(), or by a return.
EndRun(how) ==
    /\ pc' = "idle"
    /\ lastRun' = how

\* Lines 45-57: the watermark is read, one page is fetched, the batch is
\* computed; an empty batch returns at once.
StartRun ==
    /\ pc = "idle"
    /\ \E dry \in BOOLEAN, api_ok \in BOOLEAN :
         LET read == get_last_version(stateFile)
             fetched == fetch_releases(Feed(published), PerPage)
             batch == get_new_releases(fetched, read.value)
         IN /\ dry_run' = dry
            /\ fileAtStart' = stateFile
            /\ calledNow' = {}
            /\ calledAborted' = IF lastRun = "aborted"
                                THEN calledAborted \cup calledNow
                                ELSE calledAborted
            /\ calledDone' = IF lastRun = "completed"
                             THEN calledDone \cup calledNow
                             ELSE calledDone
            /\ latest_version' = PyNone
            /\ saves' = 0
            /\ IF read.raised # "none" \/ ~api_ok
               THEN /\ EndRun("aborted")
                    /\ last_version' = read.value
                    /\ new_releases' = <<>>
                    /\ fetchedAtStart' = <<>>
                    /\ idx' = 0
               ELSE /\ last_version' = read.value
                    /\ new_releases' = batch
                    /\ fetchedAtStart' = fetched
                    /\ IF batch = <<>>
                       THEN EndRun("nothing") /\ idx' = 0
                       ELSE pc' = "loop" /\ lastRun' = "running" /\ idx' = 1
    /\ UNCHANGED <<published, stateFile, call>>

\* A plausible bug: the watermark is written in dry-run mode too.
ShouldSave_IgnoresDryRun(latest, dry) == Len(latest) > 0

\* Line 79: latest_version and not args.dry_run
ShouldSave(latest, dry) == Len(latest) > 0 /\ ~dry

\* Lines 69-74: notify() is called when the run is not a dry run.
ShouldNotify(dry) == ~dry

\* A plausible bug: the watermark is written after each release.
FileAfterRelease_SavesEach(file, version, dry) ==
    IF dry THEN file ELSE save_last_version(version)

\* Lines 61-76: the body of the loop writes nothing to the state file.
FileAfterRelease(file, version, dry) == file

\* Lines 78-83, after the last release of the batch.
FileAfterLoop(file, latest, dry) ==
    IF ShouldSave(latest, dry) THEN save_last_version(latest) ELSE file

\* Lines 79-80: the calls of save_last_version() after the loop.
SaveCallsAfterLoop(latest, dry) == IF ShouldSave(latest, dry) THEN 1 ELSE 0

\* One iteration of the loop of lines 61-76 and, after the last release, the
\* code that follows the loop.
Step ==
    /\ pc = "loop"
    /\ \E body \in ReleaseBodies \cup {NoBody}, api_key \in EnvValues,
          ep \in ServeEndpoints, webhook_url \in EnvValues, hook_ok \in BOOLEAN :
         LET fetchedRelease == new_releases[idx]
             release == IF body = NoBody THEN fetchedRelease
                        ELSE [tag_name |-> fetchedRelease.tag_name, body |-> body]
             version == get_release_version(release)
             classified == classify_release(get_release_body(release), api_key, ep)
             notified == IF classified.raised = "none" /\ ShouldNotify(dry_run)
                         THEN notify(version, classified.value, webhook_url, hook_ok)
                         ELSE Returned(PyNone)
             passed == classified.raised = "none" /\ ShouldNotify(dry_run)
             file1 == FileAfterRelease(stateFile, version, dry_run)
         IN /\ calledNow' = IF passed THEN calledNow \cup {version} ELSE calledNow
            /\ IF classified.raised # "none" \/ notified.raised # "none"
               THEN /\ EndRun("aborted")
                    /\ UNCHANGED <<stateFile, latest_version, idx, saves>>
               ELSE /\ latest_version' = PyStr(version)
                    /\ IF idx < Len(new_releases)
                       THEN /\ idx' = idx + 1
                            /\ stateFile' = file1
                            /\ UNCHANGED <<pc, lastRun, saves>>
                       ELSE /\ stateFile' = FileAfterLoop(file1, version, dry_run)
                            /\ saves' = saves + SaveCallsAfterLoop(version, dry_run)
                            /\ EndRun("completed")
                            /\ UNCHANGED idx
    /\ UNCHANGED <<published, dry_run, last_version, new_releases, fileAtStart,
                   fetchedAtStart, calledAborted, calledDone, call>>

Next == Publish \/ StartRun \/ Step

Spec == Init /\ [][Next]_vars

\* get_release_by_tag(version): the release with that tag, None when the
\* server answers 404.
get_release_by_tag(feed, version) ==
    LET tag == IF version # <<>> /\ Head(version) = "v" THEN version
               ELSE <<"v">> \o version
        hits == {i \in DOMAIN feed : feed[i].tag_name = tag}
    IN IF hits = {} THEN PyNone ELSE feed[CHOOSE i \in hits : TRUE]

\* Values of --version: the number of a release, with or without the "v",
\* and a number no release has.
VersionArgs == {<<"2">>, <<"v", "2">>, <<"9">>}

\* Lines 39-44 and 54-57: with --version the batch is the one release of that
\* tag, and the run returns at once when there is none; the watermark is not
\* read.
StartRunVersion ==
    /\ pc = "idle"
    /\ \E dry \in BOOLEAN, api_ok \in BOOLEAN, version \in VersionArgs :
         LET release == get_release_by_tag(Feed(published), version)
         IN /\ dry_run' = dry
            /\ fileAtStart' = stateFile
            /\ calledNow' = {}
            /\ calledAborted' = IF lastRun = "aborted"
                                THEN calledAborted \cup calledNow
                                ELSE calledAborted
            /\ calledDone' = IF lastRun = "completed"
                             THEN calledDone \cup calledNow
                             ELSE calledDone
            /\ latest_version' = PyNone
            /\ saves' = 0
            /\ last_version' = PyNone
            /\ fetchedAtStart' = <<>>
            /\ IF ~api_ok
               THEN EndRun("aborted") /\ new_releases' = <<>> /\ idx' = 0
               ELSE IF release = PyNone
               THEN EndRun("nothing") /\ new_releases' = <<>> /\ idx' = 0
               ELSE /\ new_releases' = <<release>>
                    /\ pc' = "loop"
                    /\ lastRun' = "running"
                    /\ idx' = 1
    /\ UNCHANGED <<published, stateFile, call>>

\* Every run of main(): with and without --version.
NextMain == Publish \/ StartRun \/ StartRunVersion \/ Step

SpecMain == Init /\ [][NextMain]_vars

----------------------------------------------------------------------------
(* Direct calls of the functions, on inputs drawn from bounded sets: a     *)
(* behaviour of SpecCalls makes one call and records it in call.           *)

\* All sequences over S of length at most n.
SeqsUpTo(S, n) == UNION {[1..k -> S] : k \in 0..n}

TagSamples ==
    {<<"v", "1">>, <<"1">>, <<"v", "v", "1">>, <<"v", "2">>, <<"2">>,
     <<"1", "v">>, <<>>}

\* Release dicts: with a tag_name, or without the key.
ReleaseSamples ==
    {[tag_name |-> t] : t \in TagSamples} \cup {[body |-> PyStr(<<>>)]}

LastVersionSamples ==
    {PyNone, PyNum(1)} \cup
    {PyStr(s) : s \in {<<"1">>, <<"2">>, <<"3">>, <<"v", "1">>, <<>>}}

CallGetNewReleases ==
    /\ call.fn = "none"
    /\ \E releases \in SeqsUpTo(ReleaseSamples, MaxFetched),
          lv \in LastVersionSamples :
         call' = [fn |-> "get_new_releases", releases |-> releases, lv |-> lv,
                  out |-> get_new_releases(releases, lv)]
    /\ UNCHANGED serveVars

\* The values an item of a reply may hold under "category" and "summary";
\* NoValue stands for the key being absent.
NoValue == [t |-> "absent"]

CategorySamples ==
    {PyStr(c) : c \in Category \cup {"", "Other"}} \cup {PyList(<<>>), NoValue}

SummarySamples == {PyStr(""), PyStr("s"), NoValue}

ItemDict(category, summary, original) ==
    LET keys == (IF category = NoValue THEN {} ELSE {"category"}) \cup
                (IF summary = NoValue THEN {} ELSE {"summary"}) \cup
                (IF original = NoValue THEN {} ELSE {"original"})
        full == [category |-> category, summary |-> summary,
                 original |-> original]
    IN PyObj([k \in keys |-> full[k]])

\* Items of a reply: objects, and one value that is not an object.
ItemSamples ==
    {ItemDict(c, s, NoValue) : c \in CategorySamples, s \in SummarySamples}
    \cup {ItemDict(PyStr("Feature"), PyStr("s"), PyStr("o")), PyNum(1)}

\* Longest "items" list of a reply.
MaxItems == 2

DocSamples ==
    {PyObj([items |-> PyList(s)]) : s \in SeqsUpTo(ItemSamples, MaxItems)}
    \cup {PyObj([items |-> x]) :
            x \in {PyNone, PyNum(1), PyStr(""), PyStr("text"), PyObj(<<>>),
                   PyObj([category |-> PyStr("Feature")])}}
    \cup {PyObj(<<>>), PyObj([result |-> PyList(<<>>)]), PyList(<<>>),
          PyList(<<ItemDict(PyStr("Feature"), PyStr("s"), NoValue)>>),
          PyStr("text"), PyNum(1), PyNone}

\* Texts that spell a JSON document, bare or fenced.
JsonLayouts ==
    {<<"json">>, <<"fence", "json", "fence">>,
     <<"fence", "json", "json", "fence", "blank">>, <<"blank", "json">>}

\* Texts that do not.
OtherLayouts ==
    {<<>>, <<"prose">>, <<"prose", "fence", "json", "fence">>,
     <<"json", "prose">>, <<"fence", "fence">>, <<"blank", "fence", "json", "fence">>}

RawTextSamples ==
    {RawText(l, d) : l \in JsonLayouts, d \in DocSamples}
    \cup {RawText(l, PyObj([items |-> PyList(<<>>)])) : l \in OtherLayouts}

CallParseResponse ==
    /\ call.fn = "none"
    /\ \E raw \in RawTextSamples :
         call' = [fn |-> "parse_response", raw |-> raw,
                  out |-> parse_response(raw)]
    /\ UNCHANGED serveVars

BodySamples ==
    {PyNone} \cup
    {PyStr(s) : s \in {<<>>, <<" ">>, <<"\n">>, <<" ", "\n">>, <<"\n", " ", " ">>,
                       <<"a">>, <<" ", "a", " ">>, <<"-", " ", "a">>}}

EndpointSamples ==
    {EndpointRaises("RateLimit429"), EndpointRaises("ServerError"),
     EndpointNoText, EndpointReplies(GoodReply),
     EndpointReplies(RawText(<<"blank", "fence", "json", "fence">>, GoodReply.doc)),
     EndpointReplies(RawText(<<"prose">>, PyNone)),
     EndpointReplies(RawText(<<"json">>, PyList(<<>>))),
     EndpointReplies(RawText(<<"json">>, PyObj([items |-> PyList(<<>>)])))}

CallClassifyRelease ==
    /\ call.fn = "none"
    /\ \E body \in BodySamples, api_key \in EnvValues \cup {PyStr("")},
          ep \in EndpointSamples :
         call' = [fn |-> "classify_release", body |-> body, api_key |-> api_key,
                  ep |-> ep, out |-> classify_release(body, api_key, ep)]
    /\ UNCHANGED serveVars

\* States of data/state.json.
FileSamples ==
    {FileAbsent, [kind |-> "oserror"], [kind |-> "undecodable"],
     [kind |-> "invalid_json"]}
    \cup {FileJson(d) :
            d \in {save_last_version(<<"1">>).data,
                   PyObj([last_version |-> PyNone]),
                   PyObj([last_checked |-> PyStr(<<"t">>)]),
                   PyObj(<<>>), PyList(<<>>), PyList(<<PyStr(<<"1">>)>>),
                   PyStr(<<"1">>), PyNum(1), PyNone}}

CallGetLastVersion ==
    /\ call.fn = "none"
    /\ \E file \in FileSamples :
         call' = [fn |-> "get_last_version", file |-> file,
                  out |-> get_last_version(file)]
    /\ UNCHANGED serveVars

\* Longest item list handed to _build_section_blocks.
MaxSectionItems == 3

\* Headers of _build_blocks: "New Features" and "Changes", by length.
HeaderSamples == {Text("features", 25), Text("changes", 35)}

\* Items whose summaries are short, about half a section, and about a
\* whole section long.
SectionItemSamples ==
    {[category |-> "Feature", summary |-> Text(n[1], n[2])] :
        n \in {<<"a", 10>>, <<"b", 1482>>, <<"c", 1483>>, <<"d", 2960>>,
               <<"e", 2971>>}}

CallBuildSectionBlocks ==
    /\ call.fn = "none"
    /\ \E header \in HeaderSamples,
          items \in SeqsUpTo(SectionItemSamples, MaxSectionItems) :
         call' = [fn |-> "build_section_blocks", header |-> header,
                  items |-> items, out |-> build_section_blocks(header, items)]
    /\ UNCHANGED serveVars

\* Lines of a release body: bullets led by each verb of the table, in
\* either case, with colons and platform prefixes, and lines that are no
\* bullets.
Bullet == <<"-", " ">>
LineSamples ==
    {<<>>,
     <<"#", " ", "N", "e", "w", "s">>,
     <<"-", "F", "i", "x", "e", "d">>,
     <<" ">> \o Bullet \o <<"F", "i", "x", "e", "d">>,
     Bullet,
     Bullet \o <<" ">>,
     Bullet \o <<":">>,
     Bullet \o <<"[", "V", "]">>,
     Bullet \o <<"F", "i", "x", "e", "d", " ", "a">>,
     Bullet \o <<"[", "V", "]", " ", "F", "i", "x", "e", "d", " ", "a">>,
     Bullet \o <<"[", "V", "]", "F", "i", "x", "e", "d">>,
     Bullet \o <<"[", "a", "]", " ", "[", "b", "]", " ",
                 "f", "i", "x", "e", "d">>,
     Bullet \o <<"[", "F", "i", "x", "e", "d">>,
     Bullet \o <<"f", "i", "x", "e", "d", ":", ":">>,
     Bullet \o <<"a", " ", "f", "i", "x", "e", "d">>,
     Bullet \o <<"A", "d", "d", "e", "d", ":", " ", "a">>,
     Bullet \o <<" ", "I", "m", "p", "r", "o", "v", "e", "d", " ">>,
     Bullet \o <<"C", "h", "a", "n", "g", "e", "d">>,
     Bullet \o <<"R", "e", "m", "o", "v", "e", "d">>,
     Bullet \o <<"D", "e", "p", "r", "e", "c", "a", "t", "e", "d">>,
     Bullet \o <<"B", "R", "E", "A", "K", "I", "N", "G", ":">>}

MaxLines == 2

\* "\n".join(lines)
RECURSIVE JoinLines(_)
JoinLines(lines) ==
    IF lines = <<>> THEN <<>>
    ELSE IF Len(lines) = 1 THEN lines[1]
    ELSE lines[1] \o <<"\n">> \o JoinLines(Tail(lines))

CallExtractItems ==
    /\ call.fn = "none"
    /\ \E lines \in SeqsUpTo(LineSamples, MaxLines) :
         LET body == JoinLines(lines)
         IN call' = [fn |-> "extract_items_from_body", body |-> body,
                     out |-> extract_items_from_body(body)]
    /\ UNCHANGED serveVars

\* Bullet texts: the same change written with other case and spacing, with
\* an issue reference, a longer text that contains it, and another change.
MatchTextSamples ==
    {<<"F", "i", "x", " ", "a">>,
     <<" ", "f", "i", "x", " ", " ", "a">>,
     <<"(", "o", "/", "r", "#", "1", ")", "f", "i", "x", " ", "a">>,
     <<"f", "i", "x", " ", "a", "b">>,
     <<"A", "d", "d", " ", "c">>}

GroundTruthSamples ==
    {[text |-> t, category |-> "Bugfix"] : t \in MatchTextSamples}
    \cup {[text |-> <<"A", "d", "d", " ", "c">>, category |-> "Feature"]}

ModelItemSamples ==
    {ClassifiedItem("Change", "s", t) : t \in MatchTextSamples}
    \cup {ClassifiedItem("Feature", "s", <<"a", "d", "d", " ", "c">>)}

\* Most ground-truth items, and most model items, of one release.
MaxMatched == 2

CallMatch ==
    /\ call.fn = "none"
    /\ \E truths \in SeqsUpTo(GroundTruthSamples, MaxMatched),
          items \in SeqsUpTo(ModelItemSamples, MaxMatched) :
         call' = [fn |-> "match", ground_truth_items |-> truths,
                  model_items |-> items, out |-> match(truths, items)]
    /\ UNCHANGED serveVars

\* A reply of the model with one item of each given category.
ReplyWith(categories) ==
    EndpointReplies(RawText(<<"json">>,
        PyObj([items |-> PyList([i \in DOMAIN categories |->
                  ItemDict(PyStr(categories[i]), PyStr("s"), PyStr("o"))])])))

EvalEndpoints ==
    {ReplyWith(cs) : cs \in {<<>>, <<"Bugfix">>, <<"Feature">>,
                             <<"Feature", "Bugfix", "Bugfix">>,
                             <<"Change", "Change">>}}
    \cup {EndpointRaises("RateLimit429")}

EvalTruths ==
    {<<>>,
     <<[text |-> <<"a">>, category |-> "Bugfix"],
       [text |-> <<"b">>, category |-> "Feature"]>>,
     <<[text |-> <<"a">>, category |-> "Unknown"],
       [text |-> <<"b">>, category |-> "Change"],
       [text |-> <<"c">>, category |-> "Change"],
       [text |-> <<"d">>, category |-> "Change"],
       [text |-> <<"e">>, category |-> "Change"]>>}

EvalBodies == {PyStr(<<"-", " ", "a">>), PyStr(<<" ">>)}

\* Most versions of a ground truth.
MaxVersions == 2

CallEvaluate ==
    /\ call.fn = "none"
    /\ \E n \in 0..MaxVersions :
         \E bodies \in [1..n -> EvalBodies], truths \in [1..n -> EvalTruths],
            eps \in [1..n -> EvalEndpoints] :
           LET cases == [k \in 1..n |->
                           EvalCase([tag_name |-> <<"v", VersionChars[k]>>,
                                     body |-> bodies[k]],
                                    truths[k], eps[k])]
           IN call' = [fn |-> "evaluate", cases |-> cases,
                       out |-> evaluate(cases)]
    /\ UNCHANGED serveVars

NextCalls ==
    CallGetNewReleases \/ CallParseResponse \/ CallClassifyRelease
    \/ CallGetLastVersion \/ CallBuildSectionBlocks \/ CallExtractItems
    \/ CallMatch \/ CallEvaluate

SpecCalls == Init /\ [][NextCalls]_vars

----------------------------------------------------------------------------
(* Properties of the serving run (Spec).                                   *)

\* The number of the release a version string names.
VersionNumber(version) ==
    CHOOSE k \in 1..Len(VersionChars) : <<VersionChars[k]>> = version

CalledEarlier == calledAborted \cup calledDone
CalledEver == calledNow \cup calledAborted \cup calledDone

\* C1, as stated: every release is processed exactly once; no version is
\* passed to notify() in more than one run, aborted runs included.
C1_NotifiedInAtMostOneRun == calledNow \cap CalledEarlier = {}

\* C1, amended: a version passed to notify() in a run that completed (and so
\* moved the watermark past it) is passed to notify() in no later run; a
\* version notified in a run that aborted is notified again by the retry.
C1_NotRenotifiedAfterCompletedRun == calledNow \cap calledDone = {}

\* C1 witness: after an aborted run and a completed one, a later run has
\* notified releases and completed.
C1_Witness ==
    /\ lastRun = "completed"
    /\ calledNow # {}
    /\ calledDone # {}
    /\ calledAborted # {}

\* C2: when classify_release or notify raises at any release of the batch,
\* the run writes no watermark: the state file is the one the run started
\* with, and the next run reads the last_version the failed run read.
C2_AbortLeavesWatermark ==
    lastRun = "aborted" =>
        /\ stateFile = fileAtStart
        /\ get_last_version(stateFile) = Returned(last_version)

\* C2 witness: a run aborted at the middle release of a batch of three,
\* after the first release had been notified.
C2_Witness ==
    /\ lastRun = "aborted"
    /\ Len(new_releases) = 3
    /\ idx = 2
    /\ Cardinality(calledNow) >= 1
    /\ stateFile # FileAbsent

\* C3, as stated: when a run completes, every release that was newer than
\* the stored watermark when the run fetched has been handed to notify() in
\* some run, also when more than one page was published since the watermark.
C3_NoReleaseSkipped ==
    (lastRun = "completed" /\ ~dry_run /\ last_version.t = "str") =>
        \A k \in 1..MaxPublished :
            (/\ k > VersionNumber(last_version.v)
             /\ k <= VersionNumber(get_release_version(fetchedAtStart[1])))
            => <<VersionChars[k]>> \in CalledEver

\* C10: a dry run calls notify() for no release and writes no watermark; the
\* state file is the one the run started with, so the batch computed from
\* it over the same page is the batch the dry run printed.
C10_DryRunLeavesNoTrace ==
    (dry_run /\ lastRun \in {"running", "completed", "aborted"}) =>
        /\ calledNow = {}
        /\ stateFile = fileAtStart
        /\ get_new_releases(fetchedAtStart, get_last_version(stateFile).value)
               = new_releases

\* C10 witness: a dry run that went through a batch of several releases.
C10_Witness ==
    /\ dry_run
    /\ lastRun = "completed"
    /\ Len(new_releases) >= 2
    /\ idx = Len(new_releases)

----------------------------------------------------------------------------
(* Properties of the functions (SpecCalls).                                *)

\* The positions of the fetched list whose tag, leading "v" stripped, is
\* the string last_version.
C4_Matches(releases, lv) ==
    {i \in 1..Len(releases) :
        lv.t = "str" /\ get_release_version(releases[i]) = lv.v}

C4_Least(S) == CHOOSE i \in S : \A j \in S : i <= j

\* C4: for a non-None last_version, get_new_releases returns exactly the
\* releases before the first match, oldest (last in the list) first; the
\* match and everything after it are left out.
C4_ReturnsReleasesBeforeWatermark ==
    (call.fn = "get_new_releases" /\ call.lv # PyNone) =>
        LET M == C4_Matches(call.releases, call.lv)
            n == IF M = {} THEN Len(call.releases) ELSE C4_Least(M) - 1
        IN /\ Len(call.out) = n
           /\ \A j \in 1..n : call.out[j] = call.releases[n + 1 - j]

\* C4 witness: the scenario of the specification, two distinct releases
\* before the watermark's release and one after it.
C4_Witness ==
    /\ call.fn = "get_new_releases"
    /\ call.lv = PyStr(<<"1">>)
    /\ call.releases = <<[tag_name |-> <<"v", "2">>], [tag_name |-> <<"2">>],
                         [tag_name |-> <<"v", "1">>]>>
    /\ call.out = <<[tag_name |-> <<"2">>], [tag_name |-> <<"v", "2">>]>>

\* C5: when the endpoint call raises a rate-limit error, classify_release
\* raises it; it returns no sequence.
C5_RateLimitPropagates ==
    (/\ call.fn = "classify_release"
     /\ call.out.calls = 1
     /\ call.ep = EndpointRaises("RateLimit429"))
    => call.out.raised = "RateLimit429"

\* C5 witness: a call that reached the endpoint and got the 429.
C5_Witness ==
    /\ call.fn = "classify_release"
    /\ call.out.calls = 1
    /\ call.ep = EndpointRaises("RateLimit429")
    /\ call.out.raised # "none"

\* Whether the text is JSON once its fences are removed.
C6_IsJson(raw) == json_loads(RemoveFences(raw.lines), raw.doc).raised = "none"

\* Whether a JSON document has the shape the prompt asks for: an object
\* whose "items" is a list of objects.
C6_HasShape(doc) ==
    /\ doc.t = "obj"
    /\ "items" \in DOMAIN doc.v
    /\ doc.v["items"].t = "list"
    /\ \A i \in 1..Len(doc.v["items"].v) : doc.v["items"].v[i].t = "obj"

\* C6, as stated: for a reply that is not JSON, or is JSON without the
\* expected shape, _parse_response returns an empty sequence and does not
\* raise.
C6_MalformedReplyYieldsEmpty ==
    (/\ call.fn = "parse_response"
     /\ (~C6_IsJson(call.raw) \/ ~C6_HasShape(call.raw.doc)))
    => call.out = Returned(<<>>)

\* A reply is well-formed when it is JSON of the expected shape whose items
\* hold strings under "category" and "summary", where they hold them.
C7_WellFormed(raw) ==
    /\ C6_IsJson(raw)
    /\ C6_HasShape(raw.doc)
    /\ \A i \in 1..Len(raw.doc.v["items"].v) :
          LET d == raw.doc.v["items"].v[i].v
          IN \A k \in DOMAIN d : d[k].t = "str"

\* The items the claim says are kept.
C7_Kept(item) ==
    /\ "category" \in DOMAIN item.v
    /\ item.v["category"].v \in {"Feature", "Improvement", "Change", "Breaking"}
    /\ "summary" \in DOMAIN item.v
    /\ item.v["summary"].v # ""

\* C7: for a well-formed reply the result is exactly the subsequence, in
\* reply order, of the items with a notify category and a non-empty summary.
C7_KeepsExactlyNotifyItems ==
    (call.fn = "parse_response" /\ C7_WellFormed(call.raw)) =>
        LET kept == SelectSeq(call.raw.doc.v["items"].v, C7_Kept)
        IN /\ call.out.raised = "none"
           /\ Len(call.out.value) = Len(kept)
           /\ \A i \in 1..Len(kept) :
                 /\ call.out.value[i].category = kept[i].v["category"].v
                 /\ call.out.value[i].summary = kept[i].v["summary"]
                 /\ call.out.value[i].original =
                        (IF "original" \in DOMAIN kept[i].v
                         THEN kept[i].v["original"] ELSE PyStr(""))

\* C7 witness: a fenced reply of a Bugfix item followed by a Feature item;
\* the Bugfix item is dropped and the Feature item is kept.
C7_Witness ==
    /\ call.fn = "parse_response"
    /\ call.raw.lines = <<"fence", "json", "fence">>
    /\ C7_WellFormed(call.raw)
    /\ Len(call.raw.doc.v["items"].v) = 2
    /\ call.raw.doc.v["items"].v[1] = ItemDict(PyStr("Bugfix"), PyStr("s"), NoValue)
    /\ Len(call.out.value) = 1
    /\ call.out.value[1].category = "Feature"

\* Whether a body is None, empty or made of whitespace only.
C8_Blank(body) ==
    body.t = "null" \/ \A i \in 1..Len(body.v) : body.v[i] \in {" ", "\n"}

\* C8: for a None, empty or whitespace-only body classify_release returns
\* an empty sequence without reading the API key or calling the endpoint.
C8_BlankBodyMakesNoCall ==
    (call.fn = "classify_release" /\ C8_Blank(call.body)) =>
        /\ call.out.raised = "none"
        /\ call.out.value = <<>>
        /\ ~call.out.key_read
        /\ call.out.calls = 0

\* C8 witness: a whitespace-only body, with no API key set and an endpoint
\* that would have raised.
C8_Witness ==
    /\ call.fn = "classify_release"
    /\ call.body = PyStr(<<"\n", " ", " ">>)
    /\ call.api_key = PyNone
    /\ call.ep.kind = "raise"
    /\ call.out.value = <<>>

\* C9, as stated: get_last_version never raises; it returns the stored
\* version when the file holds a JSON object with last_version, and None
\* for every other state of the file.
C9_GetLastVersionNeverRaises ==
    call.fn = "get_last_version" =>
        LET f == call.file
            holds == /\ f.kind = "json"
                     /\ f.data.t = "obj"
                     /\ "last_version" \in DOMAIN f.data.v
        IN /\ call.out.raised = "none"
           /\ call.out.value = IF holds THEN f.data.v["last_version"] ELSE PyNone


\* The item lines of a list of sections, in section order.
RECURSIVE C11_Lines(_)
C11_Lines(blocks) ==
    IF blocks = <<>> THEN <<>> ELSE Head(blocks).lines \o C11_Lines(Tail(blocks))

\* The split loses, repeats and reorders no item.
C11_ItemsPreserved ==
    call.fn = "build_section_blocks" =>
        C11_Lines(call.out) = [i \in 1..Len(call.items) |-> ItemLine(call.items[i])]

\* C11, as stated: every section emitted has a text of at most 3000
\* characters, and the item lines of the sections, in order, are the input
\* items, each once, in input order.
C11_SectionsWithinBudget ==
    call.fn = "build_section_blocks" =>
        /\ \A i \in 1..Len(call.out) :
              SectionTextLen(call.out[i]) <= SLACK_SECTION_MAX_LENGTH
        /\ C11_Lines(call.out) =
              [i \in 1..Len(call.items) |-> ItemLine(call.items[i])]


\* C12: a run that reads no watermark and fetches a non-empty page has the
\* newest release as its whole batch; when it completes and is not a dry
\* run it has notified exactly that release and written its version.  A run
\* that fetches an empty page processes nothing and writes nothing.
C12_FirstRunTakesNewestOnly ==
    /\ (/\ last_version = PyNone
        /\ lastRun \in {"running", "completed", "aborted"}
        /\ fetchedAtStart # <<>>)
       => /\ new_releases = <<fetchedAtStart[1]>>
          /\ (lastRun = "completed" /\ ~dry_run) =>
                /\ calledNow = {get_release_version(fetchedAtStart[1])}
                /\ stateFile =
                      save_last_version(get_release_version(fetchedAtStart[1]))
    /\ (lastRun = "nothing" /\ fetchedAtStart = <<>>)
       => /\ new_releases = <<>>
          /\ calledNow = {}
          /\ stateFile = fileAtStart
          /\ pc = "idle"

\* C12 witness: the first run, with three releases already published, has
\* completed: it notified the newest one only and wrote its version.
C12_Witness ==
    /\ last_version = PyNone
    /\ lastRun = "completed"
    /\ ~dry_run
    /\ Len(fetchedAtStart) = 3
    /\ calledNow = {<<"3">>}
    /\ get_last_version(stateFile).value = PyStr(<<"3">>)

----------------------------------------------------------------------------
(* Properties of extract_items_from_body (SpecCalls).                      *)

StartsWithHyphenSpace(line) ==
    Len(line) >= 2 /\ line[1] = "-" /\ line[2] = " "

HasBulletText(line) == StartsWithHyphenSpace(line) /\ Len(line) >= 3

\* The first whitespace-delimited word of a text that does not start with
\* white space: its longest prefix without white space.
LeadWord(clean) ==
    LET n == CHOOSE i \in 0..Len(clean) :
                 /\ \A j \in 1..i : ~IsSpace(clean[j])
                 /\ i = Len(clean) \/ IsSpace(clean[i + 1])
    IN SubSeq(clean, 1, n)

\* The word lower-cased, with one trailing colon removed when it has one.
TokenLessOneColon(word) ==
    LET w == lower(word)
    IN IF w # <<>> /\ w[Len(w)] = ":" THEN SubSeq(w, 1, Len(w) - 1) ELSE w

\* The word lower-cased, with all of its trailing colons removed.
TokenLessColons(word) ==
    LET w == lower(word)
        n == CHOOSE i \in 0..Len(w) :
                 /\ \A j \in (i + 1)..Len(w) : w[j] = ":"
                 /\ i = 0 \/ w[i] # ":"
    IN SubSeq(w, 1, n)

TableValue(token) ==
    IF token \in DOMAIN VERB_TO_CATEGORY THEN VERB_TO_CATEGORY[token]
    ELSE "Unknown"

\* The text after the hyphen and the space, without surrounding white space.
TextOfLine(line) == strip(SubSeq(line, 3, Len(line)))

\* C13, as stated: extract_items_from_body never raises and returns one
\* item per line that starts with a hyphen and a space, in line order; the
\* category of each is the table value of its lead token (the first word
\* after the platform tag, lower-cased, a trailing colon stripped), Unknown
\* when the token is not in the table.
C13_OneItemPerHyphenSpaceLine ==
    call.fn = "extract_items_from_body" =>
        /\ call.out.raised = "none"
        /\ LET bullets == SelectSeq(split(call.body, "\n"),
                                    StartsWithHyphenSpace)
               items == call.out.value
           IN /\ Len(items) = Len(bullets)
              /\ \A k \in 1..Len(items) :
                    /\ items[k].text = TextOfLine(bullets[k])
                    /\ items[k].category =
                           TableValue(TokenLessOneColon(LeadWord(
                               RemovePlatformPrefix(items[k].text))))

\* C13, amended: extract_items_from_body never raises and returns one item
\* per line that starts with a hyphen, a space and at least one more
\* character, in line order; the category of each is the table value of its
\* lead token (the first word after the platform tag, lower-cased, all of
\* its trailing colons stripped), one of the five categories, and Unknown
\* when the token, the empty one included, is not in the table.
C13_OneItemPerBulletLine ==
    call.fn = "extract_items_from_body" =>
        /\ call.out.raised = "none"
        /\ LET bullets == SelectSeq(split(call.body, "\n"), HasBulletText)
               items == call.out.value
           IN /\ Len(items) = Len(bullets)
              /\ \A k \in 1..Len(items) :
                    /\ items[k].text = TextOfLine(bullets[k])
                    /\ items[k].category =
                           TableValue(TokenLessColons(LeadWord(
                               RemovePlatformPrefix(items[k].text))))
                    /\ items[k].category \in Category \cup {"Unknown"}

\* A body of a bare "- " line, a bullet with a platform tag and a bullet
\* without text has been labelled.
C13_Witness ==
    /\ call.fn = "extract_items_from_body"
    /\ call.out.raised = "none"
    /\ Len(split(call.body, "\n")) = 2
    /\ \E i \in 1..2 : split(call.body, "\n")[i] \in {Bullet, Bullet \o <<" ">>}
    /\ \E k \in 1..Len(call.out.value) :
          /\ call.out.value[k].category = "Bugfix"
          /\ Head(call.out.value[k].text) = "["

----------------------------------------------------------------------------
(* Properties of the Matcher (SpecCalls).                                  *)

\* The rows of a match that consumed a model item.
C14_Consuming == {i \in DOMAIN call.out : call.out[i].item # NoItem}

\* C14: the Matcher pairs each model item with at most one ground-truth
\* item: there is one row per ground-truth item, in input order, and no two
\* rows consumed the same model item, in whichever tier they took it; a
\* consumed item is one of the model items, and its key equals, contains or
\* is contained in the row's normalized truth text.
C14_NoModelItemConsumedTwice ==
    call.fn = "match" =>
        /\ Len(call.out) = Len(call.ground_truth_items)
        /\ \A i \in DOMAIN call.out :
              call.out[i].truth_text = call.ground_truth_items[i].text
        /\ \A i \in C14_Consuming :
              /\ call.out[i].item \in DOMAIN call.model_items
              /\ Contains(normalize(call.model_items[call.out[i].item].original),
                          normalize(call.out[i].truth_text))
        /\ \A i \in C14_Consuming, j \in C14_Consuming :
              i # j => call.out[i].item # call.out[j].item

\* Two ground-truth items with the same normalized text met one model item
\* under that key: the first consumed it, the second was left without.
C14_Witness ==
    /\ call.fn = "match"
    /\ Len(call.out) = 2
    /\ Len(call.model_items) = 1
    /\ normalize(call.out[1].truth_text) = normalize(call.out[2].truth_text)
    /\ normalize(call.model_items[1].original) = normalize(call.out[1].truth_text)
    /\ call.out[1].item = 1
    /\ call.out[2].item = NoItem

----------------------------------------------------------------------------
(* Properties of evaluate (SpecCalls).                                     *)

\* The Bugfix items in what the model answered.
BugfixProduced(ep) ==
    IF ep.kind = "reply"
    THEN LET items == ep.text.doc.v.items.v
         IN Cardinality({i \in DOMAIN items :
                            items[i].v.category = PyStr("Bugfix")})
    ELSE 0

IsEvaluated(c) == ~EmptyBody(get_release_body(c.release))

RECURSIVE SumBugfixProduced(_)
SumBugfixProduced(cases) ==
    IF cases = <<>> THEN 0
    ELSE BugfixProduced(Head(cases).ep) + SumBugfixProduced(Tail(cases))

\* C15: for each evaluated version a LEAK issue is reported whenever the
\* model's output for it holds a Bugfix item, and the aggregate leaked
\* counter is the number of Bugfix items the model produced over all
\* evaluated versions.
C15_LeakReported ==
    (call.fn = "evaluate" /\ call.out.raised = "none") =>
        LET evaluated == SelectSeq(call.cases, IsEvaluated)
            results == call.out.value.results
        IN /\ Len(results) = Len(evaluated)
           /\ \A k \in DOMAIN results :
                 BugfixProduced(evaluated[k].ep) > 0
                    => \E i \in DOMAIN results[k].issues :
                          results[k].issues[i].kind = "LEAK"
           /\ call.out.value.aggregate["Bugfix"].leaked
                 = SumBugfixProduced(evaluated)

\* What evaluate does: it sees the items _parse_response kept, none of them
\* Bugfix, so it counts no leak and reports no LEAK issue.
C15_LeakNeverCounted ==
    (call.fn = "evaluate" /\ call.out.raised = "none") =>
        /\ call.out.value.aggregate["Bugfix"].leaked = 0
        /\ \A k \in DOMAIN call.out.value.results :
              \A i \in DOMAIN call.out.value.results[k].issues :
                 call.out.value.results[k].issues[i].kind # "LEAK"

----------------------------------------------------------------------------
(* Properties of every run of main() (SpecMain).                           *)

\* The versions of the first n releases of the batch.
BatchVersions(n) ==
    {get_release_version(new_releases[i]) : i \in 1..n}

\* C16: in every run of main(), save_last_version is called at most once,
\* and only after every release of the batch has been classified and, in a
\* run that is not a dry run, notified without error; the value written is
\* the version of the last release of the batch, the newest one, the batch
\* being ordered oldest first; releases are classified and notified in that
\* order, one after the other.
C16_SavedOnceAfterTheBatch ==
    /\ saves <= 1
    /\ saves = 0 => stateFile = fileAtStart
    /\ saves = 1 =>
          /\ lastRun = "completed" /\ pc = "idle" /\ ~dry_run
          /\ idx = Len(new_releases)
          /\ calledNow = BatchVersions(Len(new_releases))
          /\ stateFile = save_last_version(
                             get_release_version(new_releases[Len(new_releases)]))
    /\ \A i \in DOMAIN new_releases : \A j \in DOMAIN new_releases :
          i < j => VersionNumber(get_release_version(new_releases[i]))
                      < VersionNumber(get_release_version(new_releases[j]))
    /\ pc = "loop" =>
          calledNow = IF dry_run THEN {} ELSE BatchVersions(idx - 1)
    /\ (new_releases # <<>> /\ ~dry_run) =>
          /\ BatchVersions(idx - 1) \subseteq calledNow
          /\ calledNow \subseteq BatchVersions(idx)

\* A run that started from a stored watermark has notified a batch of three
\* releases and then saved once.
C16_Witness ==
    /\ saves = 1
    /\ lastRun = "completed"
    /\ Len(new_releases) = 3
    /\ fileAtStart # FileAbsent
    /\ stateFile # fileAtStart
    /\ Cardinality(calledNow) = 3

====
